---- MODULE Spec2Model ----
(***************************************************************************)
(* Monte Carlo localization (DistanceFinderMCL, ObjectDetectorMCL) and the *)
(* measurement step of the unscented Kalman filter of                      *)
(* src/robot/AI/localization.rs.                                           *)
(*                                                                         *)
(* Numbers.  An f64 is a record [nan, v]: NaN, or an integer number of     *)
(* units.  Angles are counted in quarter turns (TwoPi units to the full    *)
(* turn), lengths and errors in map units, weights in units of             *)
(* 1 / WeightDen, chosen so that weight_sum_threshold and the uniform      *)
(* weights are whole numbers of units.                                     *)
(***************************************************************************)
EXTENDS Integers, Sequences, FiniteSets, TLC

\* ------------------------------------------------------------- bounds
MaxParticles == 2
MapSize == 2
MaxSensors == 2
MaxSteps == 3
MaxMagnitude == 64

\* ---------------------------------------------------- program constants
TwoPi == 4
ThresholdDivisor == 60
RangePenalty == 6
ObjectPenalty == 6
StateDim == 6
FieldSize == 200
RoundingScale == 100000

\* ---------------------------------------------------------------- f64
F(v) == [nan |-> FALSE, v |-> v]
NaN == [nan |-> TRUE, v |-> 0]
\* IEEE comparisons: every comparison with NaN is false
FEq(a, b) == ~a.nan /\ ~b.nan /\ a.v = b.v
FLt(a, b) == ~a.nan /\ ~b.nan /\ a.v < b.v
FAdd(a, b) == IF a.nan \/ b.nan THEN NaN ELSE F(a.v + b.v)
Abs(n) == IF n < 0 THEN -n ELSE n
\* Rust's % on floats: the remainder has the sign of the dividend
Fmod(a, m) == IF a >= 0 THEN a % m ELSE -((-a) % m)

RECURSIVE Fact(_)
Fact(n) == IF n <= 1 THEN 1 ELSE n * Fact(n - 1)

RECURSIVE Isqrt(_, _)
Isqrt(n, root) == IF (root + 1) * (root + 1) > n THEN root ELSE Isqrt(n, root + 1)

None == [some |-> FALSE, v |-> 0]
Some(v) == [some |-> TRUE, v |-> v]

\* -------------------------------------------------------------- poses
Pt(x, y) == [x |-> x, y |-> y, nan |-> FALSE]
NaNPoint == [x |-> 0, y |-> 0, nan |-> TRUE]

NewPose(a, p, va, v) == [angle |-> a, position |-> p, vel_angle |-> va, velocity |-> v]
PoseDefault == NewPose(0, Pt(0, 0), 0, Pt(0, 0))

PointAdd(p, o) == Pt(p.x + o.x, p.y + o.y)
PointSub(p, o) == IF p.nan \/ o.nan THEN NaNPoint ELSE Pt(p.x - o.x, p.y - o.y)
\* the magnitude of a point, rounded down to the unit
Mag(p) == IF p.nan THEN NaN ELSE F(Isqrt(p.x * p.x + p.y * p.y, 0))
Dist(p, o) == Mag(PointSub(p, o)).v

\* pose + pose: componentwise, the angle modulo 2 pi
PoseAdd(a, b) ==
    NewPose(Fmod(a.angle + b.angle, TwoPi), PointAdd(a.position, b.position),
            a.vel_angle + b.vel_angle, PointAdd(a.velocity, b.velocity))

\* pose / scalar: each component over the same denominator
PoseDiv(p, n) == [num |-> p, den |-> n]

\* Pose: angle and position
Pose(a, x, y) == [angle |-> a, position |-> Pt(x, y)]
\* Pose + Pose, Pose - Pose
PoseSum(a, b) ==
    [angle |-> Fmod(a.angle + b.angle, TwoPi), position |-> PointAdd(a.position, b.position)]
PoseSub(a, b) ==
    [angle |-> a.angle - b.angle, position |-> PointSub(a.position, b.position)]

\* ---------------------------------------------------------------- map
\* Map2D: a square of side MapSize whose east side is the one wall, and two
\* landmark points
MapWidth == MapSize
MapHeight == MapSize
Landmarks == <<Pt(MapSize, 0), Pt(0, MapSize)>>

Direction(pose) == pose.angle % TwoPi
OnWall(p) == p.x = MapSize /\ p.y >= 0 /\ p.y <= MapSize

\* Map2D::raycast: the closest point of a wall on the half-line from.position
\* + t * (cos, sin)(from.angle), t >= 0, or None
Raycast(from) ==
    LET p == from.position
        d == Direction(from)
    IN  IF OnWall(p) THEN Some(p)
        ELSE IF p.y >= 0 /\ p.y <= MapSize
                /\ ((d = 0 /\ p.x < MapSize) \/ (2 * d = TwoPi /\ p.x > MapSize))
             THEN Some(Pt(MapSize, p.y))
             ELSE None

\* a point turned by -k quarter turns
RECURSIVE Rotate(_, _)
Rotate(p, k) == IF k = 0 THEN p ELSE Rotate(Pt(p.y, -p.x), k - 1)

\* the angular window of width fov centred on the heading; the windows in use
\* are the full turn and the half turn
InFov(rel, fov) == fov >= TwoPi \/ (2 * fov = TwoPi /\ rel.x >= 0)

\* Map2D::cull_points: the landmarks in the field of view, in from's frame
CullPoints(from, fov) ==
    LET rel == [k \in 1..Len(Landmarks) |->
                    Rotate(PointSub(Landmarks[k], from.position), Direction(from))]
    IN  SelectSeq(rel, LAMBDA pt : InFov(pt, fov))

\* ---------------------------------------------------------- sort_by mag
MagSq(p) == p.x * p.x + p.y * p.y
RECURSIVE Insert(_, _)
Insert(s, p) ==
    IF s = <<>> THEN <<p>>
    ELSE IF MagSq(p) < MagSq(s[Len(s)]) THEN Append(Insert(SubSeq(s, 1, Len(s) - 1), p), s[Len(s)])
    ELSE Append(s, p)
RECURSIVE SortByMag(_)
SortByMag(s) == IF s = <<>> THEN <<>> ELSE Insert(SortByMag(SubSeq(s, 1, Len(s) - 1)), s[Len(s)])
\* partial_cmp(..).unwrap() panics as soon as a NaN magnitude is compared
SortPanics(s) == Len(s) >= 2 /\ \E k \in 1..Len(s) : s[k].nan

\* ------------------------------------------------------------ weights
ErrDen == Fact(MaxSensors)
WeightDen == ThresholdDivisor * Fact(MaxParticles) * ErrDen
\* weight_sum_threshold = max_particle_count / 60
WeightSumThreshold(max) == (max * WeightDen) \div ThresholdDivisor

WeightFunctions == {"linear", "cutoff"}
\* the caller's weight_from_error, error in units of 1 / ErrDen:
\* linear: (3 - e) / 60, negative for large errors;
\* cutoff: just under 1 / 60 below the penalty, 0 from the penalty on
WeightFromError(f, e) ==
    IF e.nan THEN NaN
    ELSE IF f = "linear" THEN F((3 * ErrDen - e.v) * Fact(MaxParticles))
    ELSE IF e.v < RangePenalty * ErrDen THEN F(Fact(MaxParticles) * ErrDen - 1)
    ELSE F(0)

\* WeightedIndex::new
WeightedIndexNew(w) ==
    IF Len(w) = 0 THEN "NoItem"
    ELSE IF \E i \in 1..Len(w) : w[i].nan \/ w[i].v < 0 THEN "InvalidWeight"
    ELSE IF \A i \in 1..Len(w) : w[i].v = 0 THEN "AllWeightsZero"
    ELSE "Ok"

\* ---------------------------------------------------------- rationals
\* the Kalman filter's numbers: exact fractions n / d in lowest terms, d > 0
RECURSIVE GCD(_, _)
GCD(a, b) == IF b = 0 THEN a ELSE GCD(b, a % b)
Rat(n, d) ==
    LET g == GCD(Abs(n), Abs(d))
        sign == IF d < 0 THEN -1 ELSE 1
    IN  [n |-> (sign * n) \div g, d |-> (sign * d) \div g]
RInt(k) == [n |-> k, d |-> 1]
RZero == RInt(0)
\* (the common factors are taken out before the products are formed)
RAdd(a, b) ==
    Rat(a.n * (b.d \div GCD(a.d, b.d)) + b.n * (a.d \div GCD(a.d, b.d)),
        (a.d \div GCD(a.d, b.d)) * b.d)
RNeg(a) == [n |-> -a.n, d |-> a.d]
RSub(a, b) == RAdd(a, RNeg(b))
RMul(a, b) ==
    Rat((a.n \div GCD(Abs(a.n), b.d)) * (b.n \div GCD(Abs(b.n), a.d)),
        (a.d \div GCD(Abs(b.n), a.d)) * (b.d \div GCD(Abs(a.n), b.d)))
RInv(a) == IF a.n < 0 THEN [n |-> -a.d, d |-> -a.n] ELSE [n |-> a.d, d |-> a.n]
RDiv(a, b) == RMul(a, RInv(b))

\* the state has StateDim components and the sigma matrix 2 * StateDim + 1 rows
SigmaRows == 2 * StateDim + 1
Components == 1..StateDim
ZeroVector == [c \in Components |-> RZero]
ZeroMatrix == [a \in Components |-> ZeroVector]
IdentityMatrix == [a \in Components |-> [b \in Components |-> RInt(IF a = b THEN 1 ELSE 0)]]
\* a vector and a matrix with their entries computed
Computed(f) == f @@ <<>>
ComputedRows(m) == Computed([i \in DOMAIN m |-> Computed(m[i])])
\* an acceleration, as the Pose the motion sensor reports
Accel(a, x, y) == [angle |-> RInt(a), x |-> RInt(x), y |-> RInt(y)]
ZeroAccel == Accel(0, 0, 0)

\* -------------------------------------------------------------- state
VARIABLES
    filter,              \* which localizer: "DistanceFinderMCL" or "ObjectDetectorMCL"
    max_particle_count,  \* the field of the same name
    weight_from_error,   \* the caller's weight function
    resampling_noise,    \* the angle range of the resampling noise
    belief,              \* Vec<NewPose>
    pc,                  \* "running", or "aborted" once a panic has unwound
    steps,               \* calls made so far
    op,                  \* the last call
    outcome,             \* how it ended: "ok" or "panic"
    sensed,              \* the increments the last control_update read from u
    contribs,            \* the last observation_update: each particle's error terms
    errors,              \*   its errors
    weights,             \*   its weights
    wfe_calls,           \*   how often it called weight_from_error
    drawn,               \*   the indices its resampling loop drew
    prediction,          \* what the last get_prediction returned
    \* KalmanFilter's fields
    covariance_matrix, known_state, real_state, sigma_matrix, q, r,
    sensor_sigma_matrix, beta, alpha, kappa,
    cov_zz,              \* the innovation covariance of the last measurement_update
    control,             \* what the last prediction_update read from motion_sensor
    sensed_rows,         \* the poses each measurement_update gave to sense_from_pose
    predicted_sigma,     \* sigma_matrix as the last prediction_update left it
    \* DummyMotionSensor's fields
    noise_margins, prev_robot_pose, robot_pose,
    start_pose,          \* the robot_pose the sensor was constructed with
    sensed_pose,         \* robot_pose at the last sense (at construction before that)
    increment,           \* what the last sense returned
    travelled            \* the sum of what the senses returned

config == <<filter, max_particle_count, weight_from_error, resampling_noise>>
observed == <<contribs, errors, weights, wfe_calls, drawn>>
mcl_vars == <<config, belief, sensed, observed, prediction>>
kalman_vars == <<covariance_matrix, known_state, real_state, sigma_matrix, q, r,
                 sensor_sigma_matrix, beta, alpha, kappa, cov_zz,
                 control, sensed_rows, predicted_sigma>>
motion_vars == <<noise_margins, prev_robot_pose, robot_pose, start_pose, sensed_pose,
                 increment, travelled>>
vars == <<mcl_vars, kalman_vars, motion_vars, pc, steps, op, outcome>>

\* ------------------------------------------------------- construction
\* (a noise range other than 0 is tried on the filter of one particle)
InitAngles == {0, TwoPi - 1}
\* NewPoseBelief::new: angle in [0, 2 pi), position on the map, velocities 0
UniformParticles ==
    {NewPose(0, Pt(0, 1), 0, Pt(0, 0)), NewPose(TwoPi - 1, Pt(1, 1), 0, Pt(0, 0))}
\* NewPoseBelief::from_distributions: the velocities repeat the angle and the position
DistributionParticles ==
    {NewPose(a, Pt(1, 1), a, Pt(1, 1)) : a \in InitAngles}

SeqsOf(S, n) == [1..n -> S]

\* DistanceFinderMCL::new / from_distributions, ObjectDetectorMCL::new /
\* from_distributions
NewMCL ==
    /\ filter \in {"DistanceFinderMCL", "ObjectDetectorMCL"}
    /\ max_particle_count \in 1..MaxParticles
    /\ weight_from_error \in WeightFunctions
    /\ resampling_noise \in (IF max_particle_count = 1 THEN {0, 1} ELSE {0})
    /\ belief \in SeqsOf(UniformParticles, max_particle_count)
                    \cup SeqsOf(DistributionParticles, max_particle_count)
    /\ sensed = <<>>
    /\ contribs = <<>>
    /\ errors = <<>>
    /\ weights = <<>>
    /\ wfe_calls = 0
    /\ drawn = <<>>
    /\ prediction = PoseDiv(PoseDefault, 1)

\* KalmanFilter::new
NewKalmanFilter(covariance, init_state, noise, a, k) ==
    /\ covariance_matrix = covariance
    /\ known_state = init_state
    /\ real_state = init_state
    /\ sigma_matrix = [i \in 1..SigmaRows |-> ZeroVector]
    /\ q = ZeroMatrix
    /\ r = noise
    /\ sensor_sigma_matrix = [i \in 1..SigmaRows |-> RZero]
    /\ beta = RInt(2)
    /\ alpha = a
    /\ kappa = k
    /\ cov_zz = RZero
    /\ control = <<ZeroAccel, ZeroAccel>>
    /\ sensed_rows = <<>>
    /\ predicted_sigma = [i \in 1..SigmaRows |-> ZeroVector]

\* DummyMotionSensor::new
NewMotionSensor(pose, margins) ==
    /\ noise_margins = margins
    /\ prev_robot_pose = pose
    /\ robot_pose = pose
    /\ start_pose = pose
    /\ sensed_pose = pose
    /\ increment = Pose(0, 0, 0)
    /\ travelled = Pose(0, 0, 0)

\* a motion sensor nobody calls
MotionIdle == NewMotionSensor(Pose(0, 0, 0), Pose(0, 0, 0))

Started ==
    /\ pc = "running"
    /\ steps = 0
    /\ op = "new"
    /\ outcome = "ok"

\* a run of a particle filter
Init ==
    /\ NewMCL
    /\ NewKalmanFilter(IdentityMatrix, ZeroVector, RZero, RInt(1), RZero)
    /\ MotionIdle
    /\ Started

CanCall == pc = "running" /\ steps < MaxSteps

\* ------------------------------------------------------ control_update
\* what a motion sensor may report in one sense()
Increments ==
    {NewPose(1, Pt(0, 0), 0, Pt(0, 0)), NewPose(0, Pt(1, 0), 0, Pt(0, 0)),
     NewPose(0, Pt(-1, 0), 0, Pt(0, 0))}

OnMap(b) == \A i \in 1..Len(b) : b[i].position.x \in 0..MapSize /\ b[i].position.y \in 0..MapSize

\* a control_update that senses once for every particle
ControlUpdatePerParticle ==
    /\ CanCall
    /\ \E u \in SeqsOf(Increments, Len(belief)) :
         /\ belief' = [i \in 1..Len(belief) |-> PoseAdd(belief[i], u[i])]
         /\ sensed' = u
    /\ OnMap(belief')
    /\ op' = "control_update"
    /\ outcome' = "ok"
    /\ steps' = steps + 1
    /\ UNCHANGED <<kalman_vars, motion_vars, config, pc, observed, prediction>>

ControlUpdate ==
    /\ CanCall
    /\ \E update \in Increments :
         /\ belief' = [i \in 1..Len(belief) |-> PoseAdd(belief[i], update)]
         /\ sensed' = <<update>>
    /\ OnMap(belief')
    /\ op' = "control_update"
    /\ outcome' = "ok"
    /\ steps' = steps + 1
    /\ UNCHANGED <<kalman_vars, motion_vars, config, pc, observed, prediction>>

\* ------------------------------------------------------ get_prediction
RECURSIVE SumPoses(_, _)
SumPoses(b, n) == IF n = 0 THEN PoseDefault ELSE PoseAdd(SumPoses(b, n - 1), b[n])

GetPrediction ==
    /\ CanCall
    /\ prediction' = PoseDiv(SumPoses(belief, Len(belief)), Len(belief))
    /\ op' = "get_prediction"
    /\ outcome' = "ok"
    /\ steps' = steps + 1
    /\ UNCHANGED <<kalman_vars, motion_vars, config, belief, pc, sensed, observed>>

\* ---------------------------------------------------------- resampling
\* a loop that tests the particle count after the push
LoopContinuesOffByOne(sum_weights, count, threshold, max) ==
    sum_weights < threshold /\ count <= max

\* a loop that goes on while the sum has not passed the threshold
LoopContinuesPastThreshold(sum_weights, count, threshold, max) ==
    sum_weights <= threshold /\ count < max

\* the while condition
LoopContinues(sum_weights, count, threshold, max) ==
    sum_weights < threshold /\ count < max

\* NewPose::random_from_range(resampling_noise)
NoisePoses(range) == {NewPose(a, Pt(0, 0), 0, Pt(0, 0)) : a \in 0..range}

\* distr.sample: an index of positive weight
Samples(w) == {i \in 1..Len(w) : w[i].v > 0}

\* every run of the loop: the sequence of (index, noise) it draws
RECURSIVE Runs(_, _, _, _, _)
Runs(w, range, sum_weights, count, max) ==
    IF ~LoopContinues(sum_weights, count, WeightSumThreshold(max), max) THEN {<<>>}
    ELSE UNION {{<<[idx |-> idx, noise |-> noise]>> \o rest :
                    rest \in Runs(w, range, sum_weights + w[idx].v, count + 1, max)} :
                <<idx, noise>> \in Samples(w) \X NoisePoses(range)}

Panic ==
    /\ pc' = "aborted"
    /\ outcome' = "panic"
    /\ UNCHANGED belief

\* from WeightedIndex::new(..).unwrap() to self.belief = new_particles
Resample(w) ==
    IF WeightedIndexNew(w) # "Ok"
    THEN Panic /\ drawn' = <<>>
    ELSE /\ \E run \in Runs(w, resampling_noise, 0, 0, max_particle_count) :
              /\ belief' = [k \in 1..Len(run) |-> PoseAdd(belief[run[k].idx], run[k].noise)]
              /\ drawn' = [k \in 1..Len(run) |-> run[k].idx]
         /\ outcome' = "ok"
         /\ UNCHANGED pc

\* ------------------------------ DistanceFinderMCL::observation_update
DistanceSensor(range, reading) ==
    [relative_pose |-> PoseDefault, range |-> range, reading |-> reading]
SensorFar == DistanceSensor(None, Some(MapSize))
SensorNear == DistanceSensor(Some(1), Some(MapSize))
SensorNearSilent == DistanceSensor(Some(1), None)
SensorFarSilent == DistanceSensor(None, None)
\* the slices z the caller passes
DistanceSensorArrays ==
    {z \in {<<>>, <<SensorFar>>, <<SensorNear>>, <<SensorNearSilent>>, <<SensorFarSilent>>,
            <<SensorFar, SensorNearSilent>>} : Len(z) <= MaxSensors}

\* one sensor's term of sum_error for one particle
Contribution(sample, sensor) ==
    LET pred == Raycast(PoseAdd(sample, sensor.relative_pose))
        real == sensor.reading
        pred_dist == IF pred.some THEN Dist(pred.v, sample.position) ELSE 0
        in_range == ~sensor.range.some \/ pred_dist <= sensor.range.v
        err == IF real.some
               THEN IF pred.some
                    THEN IF in_range THEN Abs(real.v - pred_dist) ELSE 0
                    ELSE RangePenalty
               ELSE IF pred.some THEN RangePenalty ELSE 0
    IN  [real |-> real, hit |-> pred.some, pred_dist |-> pred_dist,
         range |-> sensor.range, err |-> err]

RECURSIVE SumErr(_, _)
SumErr(c, n) == IF n = 0 THEN 0 ELSE SumErr(c, n - 1) + c[n].err

\* sum_error / z.len(): 0 / 0 is NaN
MeanError(c) == IF Len(c) = 0 THEN NaN ELSE F((SumErr(c, Len(c)) * ErrDen) \div Len(c))

\* a test that is content with one zero error
AnyZero(errs) == \E i \in 1..Len(errs) : FEq(errs[i], F(0))

\* errors.iter().all(|error| error == &0.)
AllZero(errs) == \A i \in 1..Len(errs) : FEq(errs[i], F(0))

DistanceFinderWeights(f, errs, threshold) ==
    IF AllZero(errs)
    THEN [i \in 1..Len(errs) |-> F((2 * threshold) \div Len(errs))]
    ELSE [i \in 1..Len(errs) |-> WeightFromError(f, errs[i])]

DistanceObservationUpdate ==
    /\ CanCall
    /\ filter = "DistanceFinderMCL"
    /\ \E z \in DistanceSensorArrays :
         LET c == [i \in 1..Len(belief) |-> [j \in 1..Len(z) |-> Contribution(belief[i], z[j])]]
             errs == [i \in 1..Len(belief) |-> MeanError(c[i])]
             w == DistanceFinderWeights(weight_from_error, errs,
                                        WeightSumThreshold(max_particle_count))
         IN  /\ contribs' = c
             /\ errors' = errs
             /\ weights' = w
             /\ wfe_calls' = IF AllZero(errs) THEN 0 ELSE Len(errs)
             /\ Resample(w)
    /\ op' = "observation_update"
    /\ steps' = steps + 1
    /\ UNCHANGED <<kalman_vars, motion_vars, config, sensed, prediction>>

\* ------------------------------ ObjectDetectorMCL::observation_update
ObjectDetector(range, reading) ==
    [relative_pose |-> PoseDefault, range |-> range, reading |-> reading]
\* the detectors z the caller passes: what is seen from a pose of the robot,
\* nothing, a NaN detection, and a NaN detection among others
ObjectDetectors ==
    {ObjectDetector(None, CullPoints(p, TwoPi)) : p \in UniformParticles}
    \cup {ObjectDetector(Some(TwoPi \div 2), CullPoints(p, TwoPi \div 2)) : p \in UniformParticles}
    \cup {ObjectDetector(None, <<>>), ObjectDetector(None, <<NaNPoint>>),
          ObjectDetector(None, <<NaNPoint, Pt(1, 0)>>)}

Min(a, b) == IF a < b THEN a ELSE b

\* the sum of |real - pred| over the zipped pairs
RECURSIVE SumMags(_, _, _)
SumMags(real, pred, n) ==
    IF n = 0 THEN F(0) ELSE FAdd(SumMags(real, pred, n - 1), Mag(PointSub(real[n], pred[n])))

\* one particle's error
ObjectError(sample, z, observation) ==
    LET fov == IF z.range.some THEN z.range.v ELSE TwoPi
        pred_observation == SortByMag(CullPoints(PoseAdd(sample, z.relative_pose), fov))
        paired == SumMags(observation, pred_observation,
                          Min(Len(observation), Len(pred_observation)))
        sum_error == FAdd(paired, F(ObjectPenalty * Abs(Len(observation) - Len(pred_observation))))
    IN  IF sum_error.nan THEN NaN ELSE F(sum_error.v * ErrDen)

\* errors.iter().all(|error| error == &0. || error == &std::f64::NAN)
AllZeroOrNaN(errs) == \A i \in 1..Len(errs) : FEq(errs[i], F(0)) \/ FEq(errs[i], NaN)

ObjectDetectorWeights(f, errs, threshold) ==
    IF AllZeroOrNaN(errs)
    THEN [i \in 1..Len(errs) |-> F(threshold \div Len(errs))]
    ELSE [i \in 1..Len(errs) |-> WeightFromError(f, errs[i])]

ObjectObservationUpdate ==
    /\ CanCall
    /\ filter = "ObjectDetectorMCL"
    /\ \E z \in ObjectDetectors :
         IF SortPanics(z.reading)
         THEN /\ Panic
              /\ errors' = <<>>
              /\ weights' = <<>>
              /\ wfe_calls' = 0
              /\ drawn' = <<>>
         ELSE LET observation == SortByMag(z.reading)
                  errs == [i \in 1..Len(belief) |-> ObjectError(belief[i], z, observation)]
                  w == ObjectDetectorWeights(weight_from_error, errs,
                                             WeightSumThreshold(max_particle_count))
              IN  /\ errors' = errs
                  /\ weights' = w
                  /\ wfe_calls' = IF AllZeroOrNaN(errs) THEN 0 ELSE Len(errs)
                  /\ Resample(w)
    /\ contribs' = <<>>
    /\ op' = "observation_update"
    /\ steps' = steps + 1
    /\ UNCHANGED <<kalman_vars, motion_vars, config, sensed, prediction>>

\* ------------------------------------- KalmanFilter::measurement_update
\* lambda = alpha^2 * (6 + kappa) - 6
Lambda == RSub(RMul(RMul(alpha, alpha), RAdd(RInt(StateDim), kappa)), RInt(StateDim))
Scale == RAdd(RInt(StateDim), Lambda)
\* row / (6 + lambda) * (if i != 0 { 1 / 2 } else { lambda })
MeanWeight(i) == RMul(RDiv(RInt(1), Scale), IF i # 1 THEN Rat(1, 2) ELSE Lambda)
\* lambda / (6 + lambda) + (1 - alpha^2 + beta) for row 0, 1 / (2 (6 + lambda)) for the others
CovWeight(i) ==
    IF i = 1
    THEN RAdd(RDiv(Lambda, Scale), RAdd(RSub(RInt(1), RMul(alpha, alpha)), beta))
    ELSE RDiv(RInt(1), RMul(RInt(2), Scale))

\* ----------------------------------------- KalmanFilter::gen_sigma_matrix
\* f64::round: to the nearest integer, halves away from zero
RRound(x) ==
    IF x.n >= 0 THEN (2 * x.n + x.d) \div (2 * x.d)
    ELSE -((2 * (-x.n) + x.d) \div (2 * x.d))
\* (e * 100000.).round() / 100000.
Round5(e) == Rat(RRound(RMul(e, RInt(RoundingScale))), RoundingScale)

\* covariance_matrix.map(round) * (6. + lambda)
ScaledCovariance ==
    [a \in Components |-> [b \in Components |-> RMul(Round5(covariance_matrix[a][b]), Scale)]]

\* e.max(0.).sqrt() of an eigenvalue that has a rational square root
\* (roots up to MaxMagnitude)
Roots == 0..MaxMagnitude
IsSquare(x) ==
    x.n > 0 => /\ \E k \in Roots : k * k = x.n
               /\ \E k \in Roots : k * k = x.d
RSqrt(x) ==
    IF x.n <= 0 THEN RZero
    ELSE Rat(CHOOSE k \in Roots : k * k = x.n, CHOOSE k \in Roots : k * k = x.d)

\* the matrices whose square root is followed: diagonal (the eigenvectors are
\* the axes, the eigenvalues the diagonal), every eigenvalue a square
ExactRoot ==
    \A a, b \in Components :
        IF a = b THEN IsSquare(ScaledCovariance[a][a]) ELSE ScaledCovariance[a][b] = RZero

\* eigenvectors * diag(sqrt(max(eigenvalue, 0))) * eigenvectors^-1
SquareRootCov ==
    [a \in Components |-> [b \in Components |->
        IF a = b THEN RSqrt(ScaledCovariance[a][a]) ELSE RZero]]

\* a gen_sigma_matrix that adds the square root in both loops
GenSigmaMatrixAllPlus ==
    [i \in 1..SigmaRows |->
        IF i = 1 THEN known_state
        ELSE [c \in Components |->
                 RAdd(known_state[c], SquareRootCov[((i - 2) % StateDim) + 1][c])]]

\* rows: known_state, known_state + row i, known_state - row i
GenSigmaMatrix ==
    [i \in 1..SigmaRows |->
        IF i = 1 THEN known_state
        ELSE IF i <= StateDim + 1
        THEN [c \in Components |-> RAdd(known_state[c], SquareRootCov[i - 1][c])]
        ELSE [c \in Components |-> RSub(known_state[c], SquareRootCov[i - 1 - StateDim][c])]]

\* a measurement_update that regenerates the sigma points from known_state
RegeneratedSigma == GenSigmaMatrix

\* self.sigma_matrix.row_iter(): the sigma points measurement_update reads
MeasurementSigma == sigma_matrix

\* what distance_sensor.sense_from_pose returns for the rows of the sigma
\* matrix: 0 for every row, or 0 for every row but one
SensorReadings ==
    {[i \in 1..SigmaRows |-> RZero]}
    \cup {[i \in 1..SigmaRows |-> RInt(IF i = k THEN 1 ELSE 0)] : k \in {1, 2, SigmaRows}}
SensorUpdates == {RZero, RInt(1)}

\* cov_zz.try_inverse(): a 1 x 1 matrix has an inverse unless its entry is 0
TryInverse(m) == IF m = RZero THEN None ELSE Some(RDiv(RInt(1), m))

\* sum += terms[i] for i in 0..=(2 * 6); each partial sum is a value before
\* the next term is added
RECURSIVE Accumulate(_, _, _)
Accumulate(terms, i, sum) ==
    IF i > SigmaRows THEN sum
    ELSE LET next == RAdd(sum, terms[i])
         IN  IF next.d > 0 THEN Accumulate(terms, i + 1, next) ELSE next

\* for i in 0..=(2 * 6) { sensor_predicted += .. }
SensorPredicted(readings) ==
    Accumulate([m \in 1..SigmaRows |-> RMul(readings[m], MeanWeight(m))], 1, RZero)

\* for i in 0..=(2 * 6) { cov_zz += .. }; cov_zz += self.r
InnovationCovariance(temp_sensor_sigma_matrix, noise) ==
    RAdd(Accumulate([m \in 1..SigmaRows |->
                        RMul(RMul(temp_sensor_sigma_matrix[m], temp_sensor_sigma_matrix[m]),
                             CovWeight(m))], 1, RZero),
         noise)

\* for i in 0..=(2 * 6) { cov_xz += .. }
CrossCovariance(temp_sigma_matrix, temp_sensor_sigma_matrix) ==
    [c \in Components |->
        Accumulate([m \in 1..SigmaRows |->
                       RMul(RMul(temp_sigma_matrix[m][c], temp_sensor_sigma_matrix[m]),
                            CovWeight(m))], 1, RZero)]

\* the estimate and its covariance are followed while their numerators and
\* denominators stay within MaxMagnitude
Small(x) == Abs(x.n) <= MaxMagnitude /\ x.d <= MaxMagnitude
InMagnitude ==
    \A a \in Components :
        /\ Small(known_state[a])
        /\ \A b \in Components : Small(covariance_matrix[a][b])

\* (each \E over a one-element set names a value once it is computed, in the
\* order of the code)
MeasurementUpdate ==
    /\ CanCall
    /\ InMagnitude
    /\ op' = "measurement_update"
    /\ steps' = steps + 1
    /\ \E readings \in SensorReadings, sensor_update \in SensorUpdates :
       \E sensor_predicted \in {SensorPredicted(readings)} :
       \E temp_sensor_sigma_matrix \in
              {[i \in 1..SigmaRows |-> RSub(readings[i], sensor_predicted)]} :
       \E zz \in {InnovationCovariance(temp_sensor_sigma_matrix, r)} :
       \E temp_sigma_matrix \in
              {[i \in 1..SigmaRows |->
                   [c \in Components |-> RSub(MeasurementSigma[i][c], known_state[c])]]} :
       \E cov_xz \in {CrossCovariance(temp_sigma_matrix, temp_sensor_sigma_matrix)} :
         LET inverse == TryInverse(zz)
             gain == [c \in Components |-> RMul(cov_xz[c], inverse.v)]
         IN  /\ sensor_sigma_matrix' = readings
             /\ sensed_rows' = Append(sensed_rows, MeasurementSigma)
             /\ cov_zz' = zz
             /\ IF ~inverse.some
                \* unwrap() of None
                THEN /\ pc' = "aborted"
                     /\ outcome' = "panic"
                     /\ UNCHANGED <<known_state, covariance_matrix>>
                ELSE /\ known_state' =
                         [c \in Components |->
                             RAdd(known_state[c],
                                  RMul(gain[c], RSub(sensor_update, sensor_predicted)))]
                     /\ covariance_matrix' =
                         [a \in Components |-> [b \in Components |->
                             RSub(covariance_matrix[a][b], RMul(RMul(gain[a], zz), gain[b]))]]
                     /\ outcome' = "ok"
                     /\ UNCHANGED pc
    /\ UNCHANGED <<mcl_vars, motion_vars, real_state, sigma_matrix, q, r, beta, alpha, kappa,
                   control, predicted_sigma>>

\* ------------------------------------- KalmanFilter::prediction_update
RLt(a, b) == a.n * b.d < b.n * a.d
\* f64 %: the remainder has the sign of the dividend
RTrunc(x) == IF x.n >= 0 THEN x.n \div x.d ELSE -((-x.n) \div x.d)
RMod(a, m) == RSub(a, RMul(m, RInt(RTrunc(RDiv(a, m)))))
\* Point::clamp, one coordinate
RClamp(x, lower, upper) == IF RLt(x, lower) THEN lower ELSE IF RLt(upper, x) THEN upper ELSE x

\* e[0] += e[3] * time; ..; e[5] += control.position.y * time
Moved(e, accel, time) ==
    [c \in Components |->
        IF c <= 3 THEN RAdd(e[c], RMul(e[c + 3], time))
        ELSE RAdd(e[c], RMul(IF c = 4 THEN accel.angle ELSE IF c = 5 THEN accel.x ELSE accel.y,
                             time))]

\* the position clamped to the field, the velocity of a clamped coordinate zeroed
Clamped(e) ==
    [c \in Components |->
        IF c \in {2, 3} THEN RClamp(e[c], RZero, RInt(FieldSize))
        ELSE IF c \in {5, 6} /\ RClamp(e[c - 3], RZero, RInt(FieldSize)) # e[c - 3] THEN RZero
        ELSE e[c]]

\* NewPose::clamp_control_update
ClampControlUpdate(pose) == Clamped(pose)

\* real_state: the angle is taken % (2. * PI)
AdvanceReal(state, accel, time) ==
    ClampControlUpdate([Moved(state, accel, time) EXCEPT
                           ![1] = RMod(RAdd(state[1], RMul(state[4], time)), RInt(TwoPi))])

\* a row of the sigma matrix
AdvanceRow(e, accel, time) == Clamped(Moved(e, accel, time))

\* time, and what motion_sensor.sense() returns: (true, estimated) acceleration
Times == {RInt(1)}
Accels == {ZeroAccel, Accel(1, 1, 0)}
Controls == {p \in Accels \X Accels : p[1] = p[2] \/ p[1] = ZeroAccel}

\* the weights of the 13 rows
MeanWeights == Computed([m \in 1..SigmaRows |-> MeanWeight(m)])
CovWeights == Computed([m \in 1..SigmaRows |-> CovWeight(m)])

\* known_state = sum of the rows by their mean weights
Recombined(rows, mean_weights) ==
    [c \in Components |->
        Accumulate([m \in 1..SigmaRows |-> RMul(rows[m][c], mean_weights[m])], 1, RZero)]

\* covariance_matrix = sum of the centred rows' outer products by their
\* covariance weights, + q (entry a, b of an outer product is entry b, a)
RecombinedCovariance(temp_sigma_matrix, cov_weights) ==
    LET upper == Computed(
            [p \in {e \in Components \X Components : e[1] <= e[2]} |->
                Accumulate([m \in 1..SigmaRows |->
                               RMul(RMul(temp_sigma_matrix[m][p[1]], temp_sigma_matrix[m][p[2]]),
                                    cov_weights[m])], 1, RZero)])
    IN  [a \in Components |-> [b \in Components |->
            RAdd(upper[IF a <= b THEN <<a, b>> ELSE <<b, a>>], q[a][b])]]

PredictionUpdate ==
    /\ CanCall
    /\ InMagnitude
    /\ ExactRoot
    /\ op' = "prediction_update"
    /\ outcome' = "ok"
    /\ steps' = steps + 1
    /\ \E time \in Times, sensed_control \in Controls :
       \E mean_weights \in {MeanWeights}, cov_weights \in {CovWeights} :
       \E generated \in {ComputedRows(GenSigmaMatrix)} :
       \E rows \in {ComputedRows([i \in 1..SigmaRows |->
                                    AdvanceRow(generated[i], sensed_control[2], time)])} :
       \E mean \in {Computed(Recombined(rows, mean_weights))} :
       \E temp_sigma_matrix \in
              {ComputedRows([i \in 1..SigmaRows |->
                                [c \in Components |-> RSub(rows[i][c], mean[c])]])} :
         /\ control' = sensed_control
         /\ real_state' = AdvanceReal(real_state, sensed_control[1], time)
         /\ sigma_matrix' = rows
         /\ predicted_sigma' = rows
         /\ known_state' = mean
         /\ covariance_matrix' = ComputedRows(RecombinedCovariance(temp_sigma_matrix, cov_weights))
    /\ UNCHANGED <<mcl_vars, motion_vars, pc, q, r, sensor_sigma_matrix, beta, alpha, kappa, cov_zz,
                   sensed_rows>>

\* ------------------------------------------------------ specification
Next ==
    \/ ControlUpdate
    \/ DistanceObservationUpdate
    \/ ObjectObservationUpdate
    \/ GetPrediction

Spec == Init /\ [][Next]_vars

\* a run of a Kalman filter
MCLIdle ==
    /\ filter = "DistanceFinderMCL"
    /\ max_particle_count = 1
    /\ weight_from_error = "linear"
    /\ resampling_noise = 0
    /\ belief = <<PoseDefault>>
    /\ sensed = <<>>
    /\ contribs = <<>>
    /\ errors = <<>>
    /\ weights = <<>>
    /\ wfe_calls = 0
    /\ drawn = <<>>
    /\ prediction = PoseDiv(PoseDefault, 1)

\* 6 I: the square root of 6 I * (6 + lambda) is rational for alpha = 1 and 1 / 2
SixfoldIdentity ==
    [a \in Components |-> [b \in Components |-> RInt(IF a = b THEN StateDim ELSE 0)]]
\* angle, x, y, and their velocities: at rest inside the field, and turning and
\* moving with the angle just under 2 pi
RestingState == <<RZero, RInt(10), RInt(10), RZero, RZero, RZero>>
MovingState == <<RInt(TwoPi - 1), RInt(10), RInt(10), RInt(1), RInt(1), RZero>>

\* the filters that are constructed: covariance, init_state, r, alpha
UnitState == [c \in Components |-> RInt(IF c = 2 THEN 1 ELSE 0)]
Constructions ==
    {<<IdentityMatrix, ZeroVector, RZero, RInt(1)>>,
     <<IdentityMatrix, UnitState, RInt(1), Rat(1, 2)>>,
     <<ZeroMatrix, ZeroVector, RZero, RInt(1)>>,
     <<ZeroMatrix, MovingState, RInt(1), RInt(1)>>,
     <<SixfoldIdentity, RestingState, RInt(1), RInt(1)>>,
     <<SixfoldIdentity, RestingState, RZero, Rat(1, 2)>>,
     <<SixfoldIdentity, MovingState, RInt(1), RInt(1)>>,
     <<SixfoldIdentity, ZeroVector, RInt(1), RInt(1)>>}

KalmanInit ==
    /\ MCLIdle
    /\ \E c \in Constructions : NewKalmanFilter(c[1], c[2], c[3], c[4], RZero)
    /\ MotionIdle
    /\ Started

KalmanNext == MeasurementUpdate \/ PredictionUpdate

KalmanSpec == KalmanInit /\ [][KalmanNext]_vars

\* ---------------------------------------------------- DummyMotionSensor
\* the poses of the robot
RobotPoses == {Pose(a, x, 0) : a \in {0, 1}, x \in 0..MapSize}
\* the noise margins the sensor is constructed with
NoiseMargins == {Pose(0, 0, 0), Pose(0, 1, 0)}
\* the samples of the three noise distributions, within the margins
NoiseSamples(margins) ==
    {Pose(a, x, y) : a \in (-margins.angle)..margins.angle,
                     x \in (-margins.position.x)..margins.position.x,
                     y \in (-margins.position.y)..margins.position.y}

\* DummyMotionSensor::update_pose
UpdatePose ==
    /\ CanCall
    /\ \E new_pose \in RobotPoses :
         /\ prev_robot_pose' = robot_pose
         /\ robot_pose' = new_pose
    /\ op' = "update_pose"
    /\ outcome' = "ok"
    /\ steps' = steps + 1
    /\ UNCHANGED <<mcl_vars, kalman_vars, pc, noise_margins, start_pose, sensed_pose,
                   increment, travelled>>

\* DummyMotionSensor::sense, as control_update calls it
Sense ==
    /\ CanCall
    /\ \E noise \in NoiseSamples(noise_margins) :
         increment' = PoseSum(PoseSub(robot_pose, prev_robot_pose), noise)
    /\ travelled' = [angle |-> travelled.angle + increment'.angle,
                     position |-> PointAdd(travelled.position, increment'.position)]
    /\ sensed_pose' = robot_pose
    /\ op' = "sense"
    /\ outcome' = "ok"
    /\ steps' = steps + 1
    /\ UNCHANGED <<mcl_vars, kalman_vars, pc, noise_margins, prev_robot_pose, robot_pose,
                   start_pose>>

\* a run of a motion sensor
SensorInit ==
    /\ MCLIdle
    /\ NewKalmanFilter(IdentityMatrix, ZeroVector, RZero, RInt(1), RZero)
    /\ \E pose \in RobotPoses, margins \in NoiseMargins : NewMotionSensor(pose, margins)
    /\ Started

SensorNext == UpdatePose \/ Sense

SensorSpec == SensorInit /\ [][SensorNext]_vars

\* ------------------------------------------------------------- claims
Observed == op = "observation_update"
Completed == Observed /\ outcome = "ok"
\* the weights were computed (the call got past the sorting of the detections)
Weighed == Observed /\ errors # <<>>
Threshold == WeightSumThreshold(max_particle_count)
ExactlyZero(e) == ~e.nan /\ e.v = 0

RECURSIVE DrawnSum(_)
DrawnSum(k) == IF k = 0 THEN 0 ELSE DrawnSum(k - 1) + weights[drawn[k]].v

\* C1: every observation_update that completes leaves between 1 and
\* max_particle_count particles, whatever calls came before it, and
\* control_update never changes the number of particles.
C1_BeliefLength ==
    [][/\ (op' = "observation_update" /\ outcome' = "ok")
            => (Len(belief') >= 1 /\ Len(belief') <= max_particle_count)
       /\ op' = "control_update" => Len(belief') = Len(belief)]_vars

\* an observation_update that completed on a belief an earlier one had shrunk
C1_Witness ==
    Completed /\ Len(errors) < max_particle_count /\ Len(belief) >= 1

\* C2: the resampling loop makes at most max_particle_count draws; the new
\* belief has one particle per draw, and the number of draws is the least k at
\* which the sum of the drawn weights is >= weight_sum_threshold, or
\* max_particle_count if the sum has not got there by then.
C2_Resampling ==
    Completed =>
        LET k == Len(drawn)
        IN  /\ k = Len(belief)
            /\ k <= max_particle_count
            /\ \A j \in 0..(k - 1) : DrawnSum(j) < Threshold
            /\ DrawnSum(k) >= Threshold \/ k = max_particle_count

\* the loop stopped on the threshold, below the cap
C2_Witness ==
    Completed /\ Len(drawn) < max_particle_count /\ DrawnSum(Len(drawn)) >= Threshold

\* C3: when every error is exactly zero, weight_from_error is not called and
\* every weight is 2 * weight_sum_threshold / belief.len() in DistanceFinderMCL
\* and weight_sum_threshold / belief.len() in ObjectDetectorMCL; when some
\* error is not zero, every weight is weight_from_error of its error.
C3_Weights ==
    Weighed =>
        IF \A i \in 1..Len(errors) : ExactlyZero(errors[i])
        THEN /\ wfe_calls = 0
             /\ \A i \in 1..Len(weights) :
                    weights[i] = F(((IF filter = "DistanceFinderMCL" THEN 2 ELSE 1) * Threshold)
                                     \div Len(errors))
        ELSE /\ Len(weights) = Len(errors)
             /\ \A i \in 1..Len(errors) :
                    weights[i] = WeightFromError(weight_from_error, errors[i])

\* an update of several particles whose errors are all zero
C3_Witness ==
    Weighed /\ Len(errors) >= 2 /\ \A i \in 1..Len(errors) : ExactlyZero(errors[i])

\* the sensor's reading was Some(d) / None, and the particle's ray hit a wall
\* within the range of the sensor
PredictedInRange(c) == c.hit /\ (~c.range.some \/ c.pred_dist <= c.range.v)
Terms == {contribs[i][j] : <<i, j>> \in {<<i, j>> \in (1..Len(contribs)) \X (1..MaxSensors) :
                                            j <= Len(contribs[i])}}

\* C4: for a reading Some(d) the term is |d - pred_dist| when the ray hits a
\* wall within the range, and the penalty 6 when it hits nothing or hits
\* beyond the range.
C4_ReadingSome ==
    Observed =>
        \A c \in Terms :
            c.real.some =>
                c.err = IF PredictedInRange(c) THEN Abs(c.real.v - c.pred_dist) ELSE RangePenalty

\* C5: for a reading None the term is the penalty 6 only when the ray hits a
\* wall within the range, and 0 when it hits nothing or hits beyond the range.
C5_ReadingNone ==
    Observed =>
        \A c \in Terms :
            ~c.real.some => c.err = IF PredictedInRange(c) THEN RangePenalty ELSE 0

\* C6: in ObjectDetectorMCL, when every error is NaN the weights are the
\* uniform weight_sum_threshold / belief.len() and weight_from_error is not
\* called.
C6_AllNaN ==
    (Weighed /\ filter = "ObjectDetectorMCL" /\ \A i \in 1..Len(errors) : errors[i].nan) =>
        /\ wfe_calls = 0
        /\ \A i \in 1..Len(weights) : weights[i] = F(Threshold \div Len(errors))

\* C7: when WeightedIndex::new rejects the weights, observation_update hands
\* an InvalidWeights error to its caller, the program goes on, and the belief
\* is what it was before the call.
C7_InvalidWeights ==
    [][(op' = "observation_update" /\ errors' # <<>> /\ WeightedIndexNew(weights') # "Ok")
         => (outcome' = "InvalidWeights" /\ pc' = "running" /\ belief' = belief)]_vars

\* C9: control_update reads the motion sensor once and adds that one increment
\* to every particle: the belief keeps its length and order, and particles
\* that were equal stay equal.
C9_ControlUpdate ==
    [][op' = "control_update" =>
         /\ Len(sensed') = 1
         /\ Len(belief') = Len(belief)
         /\ \A i \in 1..Len(belief) : belief'[i] = PoseAdd(belief[i], sensed'[1])
         /\ \A i, j \in 1..Len(belief) : belief[i] = belief[j] => belief'[i] = belief'[j]]_vars

\* a control_update of a belief with two equal particles
C9_Witness ==
    /\ op = "control_update"
    /\ \E i, j \in 1..Len(belief) : i # j /\ belief[i] = belief[j]

RECURSIVE AngleSum(_)
AngleSum(n) == IF n = 0 THEN 0 ELSE AngleSum(n - 1) + belief[n].angle
RECURSIVE XSum(_)
XSum(n) == IF n = 0 THEN 0 ELSE XSum(n - 1) + belief[n].position.x

\* C10: get_prediction returns the componentwise mean of the particles, the
\* angle being the plain sum of the angles over belief.len().
C10_Mean ==
    op = "get_prediction" =>
        /\ prediction.den = Len(belief)
        /\ prediction.num.angle = AngleSum(Len(belief))
        /\ prediction.num.position.x = XSum(Len(belief))

\* C8: when the innovation covariance of measurement_update is singular, the
\* call fails with SingularInnovation handed to its caller, known_state and
\* covariance_matrix are left as they were, and the filter goes on.
C8_SingularInnovation ==
    [][(op' = "measurement_update" /\ cov_zz' = RZero)
         => /\ outcome' = "SingularInnovation"
            /\ pc' = "running"
            /\ known_state' = known_state
            /\ covariance_matrix' = covariance_matrix]_vars

\* a prediction_update with q = 0 whose motion sensor reported zero acceleration
ZeroInput == q = ZeroMatrix /\ control' = <<ZeroAccel, ZeroAccel>>
AtRest(state) == state[4] = RZero /\ state[5] = RZero /\ state[6] = RZero
\* every row lies strictly inside the field, so the clamp has moved none
StrictlyInside(rows) ==
    \A i \in 1..SigmaRows :
        /\ RLt(RZero, rows[i][2]) /\ RLt(rows[i][2], RInt(FieldSize))
        /\ RLt(RZero, rows[i][3]) /\ RLt(rows[i][3], RInt(FieldSize))

C12_SameRule ==
    [][(op' = "prediction_update" /\ control'[1] = control'[2] /\ known_state = real_state)
         => sigma_matrix'[1] = real_state']_vars

\* C13: with zero noise, sense returns robot_pose minus the robot_pose at the
\* previous sense (at construction, before the first), whatever update_pose
\* and sense calls came before, and the increments returned so far add up to
\* the robot's displacement since the sensor was constructed.
C13_SinceLastSense ==
    [][(op' = "sense" /\ noise_margins = Pose(0, 0, 0))
         => /\ increment' = PoseSub(robot_pose, sensed_pose)
            /\ travelled' = PoseSub(robot_pose, start_pose)]_vars

\* C14: sigma_matrix is written by prediction_update only; measurement_update
\* leaves sigma_matrix, real_state, q and r as they were and gives the distance
\* sensor the 13 rows of the sigma matrix the last prediction_update left (the
\* zero matrix before the first), also when known_state has changed since.
C14_SigmaFrame ==
    [][/\ op' = "measurement_update" =>
            /\ sigma_matrix' = sigma_matrix
            /\ real_state' = real_state
            /\ q' = q
            /\ r' = r
            /\ sensed_rows' = Append(sensed_rows, predicted_sigma)
            /\ DOMAIN predicted_sigma = 1..SigmaRows
       /\ sigma_matrix' # sigma_matrix => op' = "prediction_update"]_vars

\* two measurement_updates that read the same sigma points, which a
\* prediction_update had left, the second after known_state had changed
C14_Witness ==
    /\ op = "measurement_update"
    /\ Len(sensed_rows) >= 2
    /\ sensed_rows[Len(sensed_rows)] = sensed_rows[Len(sensed_rows) - 1]
    /\ sensed_rows[Len(sensed_rows)] # [i \in 1..SigmaRows |-> ZeroVector]
    /\ known_state # sigma_matrix[1]

====
